---- MODULE Spec2Model ----
(***************************************************************************)
(* The user service (Express handlers over a Redis client) as a state      *)
(* machine.  Node runs one handler at a time and a handler yields only at  *)
(* an `await`, so one action is one stretch of handler code: the Redis     *)
(* command that the await waits for, then the code up to the next await    *)
(* or up to the response.  Requests in flight interleave at those points.  *)
(* The code from the arrival of a request to its first Redis command is    *)
(* part of that command's action when it reads nothing but the request.    *)
(***************************************************************************)
EXTENDS Integers, Sequences, FiniteSets, TLC

\* ---------------------------------------------------------------- bounds
MaxIds == 2        \* uuids that uuidv4() can hand out in one behaviour
MaxTime == 1       \* the clock runs from 0 to MaxTime
MaxReq == 2        \* requests in flight at the same time
GaugeFloor == 1    \* users_total and the create/delete balance stay >= -GaugeFloor
MaxSignals == 2    \* signals that one process handles

Ids == 1..MaxIds
Slots == 1..MaxReq
Times == 0..MaxTime

\* ------------------------------------------------------- request values
Missing == "undefined"          \* a field the JSON body does not carry
Names == {"A", "B"}
Emails == {"a@x.com", "b@x.com"}
NameInputs == Names \cup {Missing, ""}
EmailInputs == Emails \cup {Missing, ""}

\* JavaScript truthiness of a body field: undefined and "" are falsy.
Truthy(v) == v \notin {Missing, ""}

\* ------------------------------------------------------------ constants
REDIS_KEY_PREFIX == "user:"
USERS_INDEX_KEY == "users:index"

\* A key that holds nothing: redisClient.get answers null.
None == <<>>

\* The record POST /users builds.
User(id, name, email, now) ==
    [id |-> id, name |-> name, email |-> email,
     created_at |-> now, updated_at |-> now]

\* JSON.stringify of a record: the field values in the record's key order.
JSONstringify(u) == <<u.id, u.name, u.email, u.created_at, u.updated_at>>

\* Mutant of JSONparse: two fields are read from each other's place.
JSONparseSwapped(s) ==
    [id |-> s[1], name |-> s[3], email |-> s[2],
     created_at |-> s[4], updated_at |-> s[5]]

\* JSON.parse of a stored string.
JSONparse(s) ==
    [id |-> s[1], name |-> s[2], email |-> s[3],
     created_at |-> s[4], updated_at |-> s[5]]

VARIABLES
    store,        \* Redis strings: store[i] is the value of key user:<i>, or None
    index,        \* Redis set users:index
    usersTotal,   \* the users_total gauge
    clock,        \* what new Date() reads
    uuidCount,    \* how many ids uuidv4() has produced
    req,          \* req[s]: the handler in flight in slot s, at its pending await
    res,          \* the response sent by the last step (NoRes if it sent none)
    net,          \* history: 201 responses of POST minus 204 responses of DELETE
    hist,         \* history: hist[i] is what last happened to key user:<i>
    redisReady,   \* the user service's redisReady flag
    redisClient,  \* the user service's redisClient: "null" or "client"
    usReq,        \* usReq[s]: a /health/ready handler of the user service at its ping
    usRes,        \* the exchange the user service's pipeline completed in the last step
    gwReq,        \* gwReq[s]: a gateway handler in flight, at its axios call
    gwRes,        \* the exchange the gateway completed in the last step
    proc,         \* proc[svc]: the process of each service, its server and its shutdown
    boot          \* the user service's start() and the socket of its Redis client

\* The user routes' state, the two request pipelines, the processes.
coreVars == <<store, index, usersTotal, clock, uuidCount, req, res, net, hist>>
edgeVars == <<redisReady, redisClient, usReq, usRes, gwReq, gwRes>>
downVars == <<proc>>
bootVars == <<boot>>
vars == <<coreVars, edgeVars, downVars, bootVars>>

\* ------------------------------------------------------------- requests
NoUser == [id |-> 0, name |-> Missing, email |-> Missing,
           created_at |-> 0, updated_at |-> 0]
NoRes == [method |-> "-", id |-> 0, status |-> 0, body |-> <<>>]

\* A handler's live locals: `user` is the object it is about to write.
Idle == [pc |-> "idle", method |-> "-", id |-> 0, user |-> NoUser, ids |-> {}]

\* Values of the history variable hist[i]: nothing has written key user:<i>;
\* a POST answered 201 with `user` and the key was not written since; a DELETE
\* of it answered 204 and the key was not written since; otherwise "written".
Untouched == [tag |-> "untouched", user |-> NoUser]
Posted(u) == [tag |-> "posted", user |-> u]
Deleted == [tag |-> "deleted", user |-> NoUser]
Written == [tag |-> "written", user |-> NoUser]

Response(method, id, status, body) ==
    [method |-> method, id |-> id, status |-> status, body |-> body]

\* A handler that reaches a second await stays in flight in a slot: the lowest
\* free one (slots are interchangeable), none when MaxReq handlers are in flight.
FreeSlots == {s \in Slots : req[s].pc = "idle"}
NewSlot == CHOOSE s \in FreeSlots : \A t \in FreeSlots : s <= t

\* ------------------------------------------------------------ environment
Tick ==
    /\ clock < MaxTime
    /\ clock' = clock + 1
    /\ res' = NoRes
    /\ UNCHANGED <<store, index, usersTotal, uuidCount, req>>

\* The handler's catch block, entered when a Redis command rejects: log,
\* answer 500, the request is over.
Catch(s, method, id, error) ==
    /\ req' = [req EXCEPT ![s] = Idle]
    /\ res' = Response(method, id, 500, [error |-> error])
    /\ UNCHANGED <<store, index, usersTotal>>

\* ------------------------------------------------------------- GET /users
\* The orders in which SMEMBERS may return the members of a set.
Orders(S) ==
    {f \in [1..Cardinality(S) -> S] : \A a, b \in DOMAIN f : a # b => f[a] # f[b]}

\* results.filter(Boolean).map(JSON.parse).filter(Boolean)
ParseAll(results) ==
    LET kept == SelectSeq(results, LAMBDA raw : raw # None)
    IN  [k \in 1..Len(kept) |-> JSONparse(kept[k])]

\* The request arrives and sMembers answers (ok) or rejects.
ListSMembers(ok) ==
    /\ IF ~ok
       THEN /\ res' = Response("GET /users", 0, 500, [error |-> "failed_to_fetch_users"])
            /\ UNCHANGED <<req, store, index, usersTotal>>
       ELSE /\ IF index = {}
               THEN /\ req' = req
                    /\ res' = Response("GET /users", 0, 200, <<>>)
               ELSE /\ FreeSlots # {}
                    /\ req' = [req EXCEPT ![NewSlot] =
                                  [Idle EXCEPT !.pc = "exec", !.method = "GET /users",
                                               !.ids = index]]
                    /\ res' = NoRes
            /\ UNCHANGED <<store, index, usersTotal>>
    /\ UNCHANGED <<clock, uuidCount>>

\* A list that fails when a record of the index is missing.
ListExecStrict(s, ok) ==
    /\ req[s].method = "GET /users" /\ req[s].pc = "exec"
    /\ IF ~ok \/ \E i \in req[s].ids : store[i] = None
       THEN Catch(s, "GET /users", 0, "failed_to_fetch_users")
       ELSE \E userIds \in Orders(req[s].ids) :
            LET results == [k \in DOMAIN userIds |-> store[userIds[k]]]
                users == ParseAll(results)
            IN  /\ usersTotal' = Len(users)
                /\ req' = [req EXCEPT ![s] = Idle]
                /\ res' = Response("GET /users", 0, 200, users)
                /\ UNCHANGED <<store, index>>
    /\ UNCHANGED <<clock, uuidCount>>

ListExec(s, ok) ==
    /\ req[s].method = "GET /users" /\ req[s].pc = "exec"
    /\ IF ~ok THEN Catch(s, "GET /users", 0, "failed_to_fetch_users")
       ELSE \E userIds \in Orders(req[s].ids) :
            LET results == [k \in DOMAIN userIds |-> store[userIds[k]]]
                users == ParseAll(results)
            IN  /\ usersTotal' = Len(users)
                /\ req' = [req EXCEPT ![s] = Idle]
                /\ res' = Response("GET /users", 0, 200, users)
                /\ UNCHANGED <<store, index>>
    /\ UNCHANGED <<clock, uuidCount>>

\* ----------------------------------------------------------- GET /users/:id
GetUser(id, ok) ==
    /\ res' = IF ~ok
              THEN Response("GET /users/:id", id, 500, [error |-> "failed_to_fetch_user"])
              ELSE IF store[id] = None
              THEN Response("GET /users/:id", id, 404,
                            [error |-> "user_not_found", id |-> id])
              ELSE Response("GET /users/:id", id, 200, JSONparse(store[id]))
    /\ UNCHANGED <<store, index, usersTotal, clock, uuidCount, req>>

\* -------------------------------------------------------------- POST /users
\* uuidv4(): an id no earlier call returned.
uuidv4 == uuidCount + 1

\* Mutant of PostArrive: the validation is `!name && !email`.
PostArriveAnd(name, email) ==
    /\ IF ~Truthy(name) /\ ~Truthy(email)
       THEN /\ res' = Response("POST /users", 0, 400,
                               [error |-> "validation_error",
                                message |-> "name y email son obligatorios"])
            /\ UNCHANGED <<req, uuidCount>>
       ELSE /\ FreeSlots # {}
            /\ uuidCount < MaxIds
            /\ uuidCount' = uuidCount + 1
            /\ req' = [req EXCEPT ![NewSlot] =
                          [Idle EXCEPT !.pc = "sMembers", !.method = "POST /users",
                                       !.user = User(uuidv4, name, email, clock)]]
            /\ res' = NoRes
    /\ UNCHANGED <<store, index, usersTotal, clock>>

\* The handler up to its first await: validation, then the `user` object.
PostArrive(name, email) ==
    /\ IF ~Truthy(name) \/ ~Truthy(email)
       THEN /\ res' = Response("POST /users", 0, 400,
                               [error |-> "validation_error",
                                message |-> "name y email son obligatorios"])
            /\ UNCHANGED <<req, uuidCount>>
       ELSE /\ FreeSlots # {}
            /\ uuidCount < MaxIds
            /\ uuidCount' = uuidCount + 1
            /\ req' = [req EXCEPT ![NewSlot] =
                          [Idle EXCEPT !.pc = "sMembers", !.method = "POST /users",
                                       !.user = User(uuidv4, name, email, clock)]]
            /\ res' = NoRes
    /\ UNCHANGED <<store, index, usersTotal, clock>>

PostSMembers(s, ok) ==
    /\ req[s].method = "POST /users" /\ req[s].pc = "sMembers"
    /\ IF ~ok THEN Catch(s, "POST /users", 0, "failed_to_create_user")
       ELSE /\ req' = [req EXCEPT ![s].ids = index,
                                  ![s].pc = IF index = {} THEN "set" ELSE "scan"]
            /\ res' = NoRes
            /\ UNCHANGED <<store, index, usersTotal>>
    /\ UNCHANGED <<clock, uuidCount>>

\* Mutant of PostScan: the comparison reads the wrong field.
PostScanByName(s, ok) ==
    /\ req[s].method = "POST /users" /\ req[s].pc = "scan"
    /\ IF ~ok THEN Catch(s, "POST /users", 0, "failed_to_create_user")
       ELSE \E id \in req[s].ids :
            LET rawUser == store[id]
                rest == req[s].ids \ {id}
            IN  /\ IF rawUser # None /\ JSONparse(rawUser).name = req[s].user.name
                   THEN /\ req' = [req EXCEPT ![s] = Idle]
                        /\ res' = Response("POST /users", 0, 409,
                                     [error |-> "duplicate_email",
                                      message |-> "Ya existe un usuario con ese email"])
                   ELSE /\ req' = [req EXCEPT ![s].ids = rest,
                                       ![s].pc = IF rest = {} THEN "set" ELSE "scan"]
                        /\ res' = NoRes
                /\ UNCHANGED <<store, index, usersTotal>>
    /\ UNCHANGED <<clock, uuidCount>>

\* One turn of the loop over existingIds: the get, then the comparison.
PostScan(s, ok) ==
    /\ req[s].method = "POST /users" /\ req[s].pc = "scan"
    /\ IF ~ok THEN Catch(s, "POST /users", 0, "failed_to_create_user")
       ELSE \E id \in req[s].ids :
            LET rawUser == store[id]
                rest == req[s].ids \ {id}
            IN  /\ IF rawUser # None /\ JSONparse(rawUser).email = req[s].user.email
                   THEN /\ req' = [req EXCEPT ![s] = Idle]
                        /\ res' = Response("POST /users", 0, 409,
                                     [error |-> "duplicate_email",
                                      message |-> "Ya existe un usuario con ese email"])
                   ELSE /\ req' = [req EXCEPT ![s].ids = rest,
                                       ![s].pc = IF rest = {} THEN "set" ELSE "scan"]
                        /\ res' = NoRes
                /\ UNCHANGED <<store, index, usersTotal>>
    /\ UNCHANGED <<clock, uuidCount>>

\* Mutant of PostSet: the write is conditional on the email still being free.
PostSetChecked(s, ok) ==
    /\ req[s].method = "POST /users" /\ req[s].pc = "set"
    /\ IF ~ok THEN Catch(s, "POST /users", 0, "failed_to_create_user")
       ELSE IF \E i \in Ids : store[i] # None
                               /\ JSONparse(store[i]).email = req[s].user.email
       THEN /\ req' = [req EXCEPT ![s] = Idle]
            /\ res' = Response("POST /users", 0, 409, [error |-> "duplicate_email"])
            /\ UNCHANGED <<store, index, usersTotal>>
       ELSE /\ store' = [store EXCEPT ![req[s].user.id] = JSONstringify(req[s].user)]
            /\ req' = [req EXCEPT ![s].pc = "sAdd"]
            /\ res' = NoRes
            /\ UNCHANGED <<index, usersTotal>>
    /\ UNCHANGED <<clock, uuidCount>>

PostSet(s, ok) ==
    /\ req[s].method = "POST /users" /\ req[s].pc = "set"
    /\ IF ~ok THEN Catch(s, "POST /users", 0, "failed_to_create_user")
       ELSE /\ store' = [store EXCEPT ![req[s].user.id] = JSONstringify(req[s].user)]
            /\ req' = [req EXCEPT ![s].pc = "sAdd"]
            /\ res' = NoRes
            /\ UNCHANGED <<index, usersTotal>>
    /\ UNCHANGED <<clock, uuidCount>>

\* Mutant of PostSAdd: the id is not added to the index.
PostSAddNoIndex(s, ok) ==
    /\ req[s].method = "POST /users" /\ req[s].pc = "sAdd"
    /\ IF ~ok THEN Catch(s, "POST /users", 0, "failed_to_create_user")
       ELSE /\ usersTotal' = usersTotal + 1
            /\ req' = [req EXCEPT ![s] = Idle]
            /\ res' = Response("POST /users", 0, 201, req[s].user)
            /\ UNCHANGED <<store, index>>
    /\ UNCHANGED <<clock, uuidCount>>

PostSAdd(s, ok) ==
    /\ req[s].method = "POST /users" /\ req[s].pc = "sAdd"
    /\ IF ~ok THEN Catch(s, "POST /users", 0, "failed_to_create_user")
       ELSE /\ index' = index \cup {req[s].user.id}
            /\ usersTotal' = usersTotal + 1
            /\ req' = [req EXCEPT ![s] = Idle]
            /\ res' = Response("POST /users", 0, 201, req[s].user)
            /\ UNCHANGED store
    /\ UNCHANGED <<clock, uuidCount>>

\* ----------------------------------------------------------- PUT /users/:id
\* An update that refreshes created_at as well.
UpdatedTouch(existing, name, email, now) ==
    [existing EXCEPT !.name = IF Truthy(name) THEN name ELSE @,
                     !.email = IF Truthy(email) THEN email ELSE @,
                     !.created_at = now,
                     !.updated_at = now]

\* Mutant of Updated: { ...existing, name, email, updated_at }
UpdatedOverwrite(existing, name, email, now) ==
    [existing EXCEPT !.name = name, !.email = email, !.updated_at = now]

\* { ...existing, ...(name && { name }), ...(email && { email }), updated_at }
Updated(existing, name, email, now) ==
    [existing EXCEPT !.name = IF Truthy(name) THEN name ELSE @,
                     !.email = IF Truthy(email) THEN email ELSE @,
                     !.updated_at = now]

\* The request arrives, is validated, and its get answers or rejects; the
\* handler then builds `updated` and issues the set.
PutGet(id, name, email, ok) ==
    /\ IF ~Truthy(name) /\ ~Truthy(email)
       THEN /\ res' = Response("PUT /users/:id", id, 400,
                               [error |-> "validation_error",
                                message |-> "debes mandar name o email al menos"])
            /\ req' = req
       ELSE IF ~ok
       THEN /\ res' = Response("PUT /users/:id", id, 500,
                               [error |-> "failed_to_update_user"])
            /\ req' = req
       ELSE IF store[id] = None
       THEN /\ res' = Response("PUT /users/:id", id, 404,
                               [error |-> "user_not_found", id |-> id])
            /\ req' = req
       ELSE /\ FreeSlots # {}
            /\ req' = [req EXCEPT ![NewSlot] =
                          [Idle EXCEPT !.pc = "set", !.method = "PUT /users/:id",
                                       !.id = id,
                                       !.user = Updated(JSONparse(store[id]),
                                                        name, email, clock)]]
            /\ res' = NoRes
    /\ UNCHANGED <<store, index, usersTotal, clock, uuidCount>>

PutSet(s, ok) ==
    /\ req[s].method = "PUT /users/:id" /\ req[s].pc = "set"
    /\ IF ~ok THEN Catch(s, "PUT /users/:id", req[s].id, "failed_to_update_user")
       ELSE /\ store' = [store EXCEPT ![req[s].user.id] = JSONstringify(req[s].user)]
            /\ req' = [req EXCEPT ![s] = Idle]
            /\ res' = Response("PUT /users/:id", req[s].id, 200, req[s].user)
            /\ UNCHANGED <<index, usersTotal>>
    /\ UNCHANGED <<clock, uuidCount>>

\* A field that a body may carry or not: no value, or one.
Optional(S) == {{}} \cup {{v} : v \in S}

\* The bodies of PUT requests: name and email, and possibly other fields:
\* an id and a created_at of the client's choosing (the last id, the last
\* time).
PutBodies == [name : NameInputs, email : EmailInputs,
              rest : Optional({[id |-> MaxIds, created_at |-> MaxTime]})]

\* const { name, email } = req.body: the handler reads these two fields of
\* the body and no other.
PutRequest(id, body, ok) == PutGet(id, body.name, body.email, ok)

\* -------------------------------------------------------- DELETE /users/:id
\* DELETE handlers that will still decrement the gauge.
Deleting == Cardinality({t \in Slots : req[t].method = "DELETE /users/:id"})

\* Mutant of DeleteDel: the result of del is not tested.
DeleteDelAlwaysRem(id, ok) ==
    /\ IF ~ok
       THEN /\ res' = Response("DELETE /users/:id", id, 500,
                               [error |-> "failed_to_delete_user"])
            /\ UNCHANGED <<req, store>>
       ELSE /\ store' = [store EXCEPT ![id] = None]
            /\ FreeSlots # {}
            /\ usersTotal - Deleting > -GaugeFloor
            /\ req' = [req EXCEPT ![NewSlot] =
                          [Idle EXCEPT !.pc = "sRem", !.method = "DELETE /users/:id",
                                       !.id = id]]
            /\ res' = NoRes
    /\ UNCHANGED <<index, usersTotal, clock, uuidCount>>

\* The request arrives and its del answers or rejects.
DeleteDel(id, ok) ==
    /\ IF ~ok
       THEN /\ res' = Response("DELETE /users/:id", id, 500,
                               [error |-> "failed_to_delete_user"])
            /\ UNCHANGED <<req, store>>
       ELSE LET deleted == IF store[id] # None THEN 1 ELSE 0 IN
            /\ store' = [store EXCEPT ![id] = None]
            /\ IF deleted = 0
               THEN /\ res' = Response("DELETE /users/:id", id, 404,
                                       [error |-> "user_not_found", id |-> id])
                    /\ req' = req
               ELSE /\ FreeSlots # {}
                    /\ usersTotal - Deleting > -GaugeFloor
                    /\ req' = [req EXCEPT ![NewSlot] =
                                  [Idle EXCEPT !.pc = "sRem",
                                               !.method = "DELETE /users/:id",
                                               !.id = id]]
                    /\ res' = NoRes
    /\ UNCHANGED <<index, usersTotal, clock, uuidCount>>

DeleteSRem(s, ok) ==
    /\ req[s].method = "DELETE /users/:id" /\ req[s].pc = "sRem"
    /\ IF ~ok THEN Catch(s, "DELETE /users/:id", req[s].id, "failed_to_delete_user")
       ELSE /\ index' = index \ {req[s].id}
            /\ usersTotal' = usersTotal - 1
            /\ req' = [req EXCEPT ![s] = Idle]
            /\ res' = Response("DELETE /users/:id", req[s].id, 204, <<>>)
            /\ UNCHANGED store
    /\ UNCHANGED <<clock, uuidCount>>

\* ------------------------------------------------------- request pipelines
\* An HTTP request as the pipelines of both services see it: its route, its
\* X-Request-ID header (Missing when it carries none) and its body: one that
\* express.json() accepts (no body, or well-formed JSON) or JSON that does
\* not parse.  The user service reads the header for its log lines only.
RidInputs == {"r1", "", Missing}
BodyInputs == {"parsable", "malformed"}
UsRoutes == {"/health/live", "/health/ready", "/users", "/nope"}
GwRoutes == {"/health/live", "/health/ready", "/api/users", "/nope"}
Request(route, rid, body) == [route |-> route, rid |-> rid, body |-> body]
NoRequest == Request("-", Missing, "parsable")
UsRequests == {Request(p, Missing, b) : p \in UsRoutes, b \in BodyInputs}
GwRequests == {Request(p, h, b) : p \in GwRoutes, h \in RidInputs, b \in BodyInputs}

\* A response without a body.
NoData == [empty |-> TRUE]

\* express.json() is the first middleware of both services: a body that does
\* not parse makes it call next(err), which skips every middleware and route
\* and runs the service's error handler.
Unparsable(r) == r.body = "malformed"

\* The exchange the user service completed: the request, the response, and
\* what became of the ping the handler sent ("none" when it sent no ping).
UsExchange(r, status, body, ping) ==
    [req |-> r, status |-> status, body |-> body, ping |-> ping]
NoUsRes == UsExchange(NoRequest, 0, NoData, "none")
UsIdle == [pc |-> "idle", req |-> NoRequest]

\* What the gateway's HTTP call to the user service came to: a response, no
\* response within the timeout, or no connection.  NoCall: no call was made.
Answered(status, data) == [kind |-> "response", status |-> status, data |-> data]
TimedOut == [kind |-> "timeout", status |-> 0, data |-> NoData]
Refused == [kind |-> "refused", status |-> 0, data |-> NoData]
NoCall == [kind |-> "nocall", status |-> 0, data |-> NoData]

\* The exchange the gateway completed: the request, the response with its
\* X-Request-ID header `rid` (Missing when the header was not set), the
\* X-Request-ID header `fwd` of the call it made upstream (Missing when it made
\* none) and what that call came to.
GwExchange(r, status, body, rid, fwd, up) ==
    [req |-> r, status |-> status, body |-> body, rid |-> rid, fwd |-> fwd, up |-> up,
     obs |-> 0]

\* The exchange x, in which the handler recorded n observations of the
\* upstream-call latency histogram (the function that startTimer returned
\* was called n times).
Observed(x, n) == [x EXCEPT !.obs = n]
NoGwRes == GwExchange(NoRequest, 0, NoData, Missing, Missing, NoCall)
GwIdle == [pc |-> "idle", req |-> NoRequest, requestId |-> Missing]

\* ---------------------------------------------------- user service: health
\* The client's connection events, as the handlers that connectRedis()
\* registers treat them.
OnConnect ==
    /\ redisReady' = TRUE
    /\ usRes' = NoUsRes /\ gwRes' = NoGwRes
    /\ UNCHANGED <<redisClient, usReq, gwReq>>

\* An 'error' handler that leaves the flag alone.
OnErrorKeeps ==
    /\ redisReady' = redisReady
    /\ usRes' = NoUsRes /\ gwRes' = NoGwRes
    /\ UNCHANGED <<redisClient, usReq, gwReq>>

OnReady ==
    /\ redisReady' = TRUE
    /\ usRes' = NoUsRes /\ gwRes' = NoGwRes
    /\ UNCHANGED <<redisClient, usReq, gwReq>>

OnError ==
    /\ redisReady' = FALSE
    /\ usRes' = NoUsRes /\ gwRes' = NoGwRes
    /\ UNCHANGED <<redisClient, usReq, gwReq>>

OnEnd ==
    /\ redisReady' = FALSE
    /\ usRes' = NoUsRes /\ gwRes' = NoGwRes
    /\ UNCHANGED <<redisClient, usReq, gwReq>>

Alive == [status |-> "alive", timestamp |-> clock]
RedisUp == [status |-> "ready", timestamp |-> clock, dependencies |-> [redis |-> "up"]]
RedisDown == [status |-> "not ready", timestamp |-> clock, dependencies |-> [redis |-> "down"]]
UsNotFound(r) == [error |-> "not_found", path |-> r.route]
UsInternalError == [error |-> "internal_server_error"]

UsFreeSlots == {s \in Slots : usReq[s].pc = "idle"}
UsNewSlot == CHOOSE s \in UsFreeSlots : \A t \in UsFreeSlots : s <= t

\* A GET /health/live that follows the connection: 503 when Redis is down.
UsLiveChecked(r) ==
    /\ usRes' = IF redisReady THEN UsExchange(r, 200, Alive, "none")
                ELSE UsExchange(r, 503, Alive, "none")
    /\ usReq' = usReq

\* GET /health/live answers without reading any state.
UsLive(r) ==
    /\ usRes' = UsExchange(r, 200, Alive, "none")
    /\ usReq' = usReq

\* A GET /health/ready that pings whatever the connection's state.
UsReadyUnguarded(r) ==
    /\ usRes' = NoUsRes
    /\ usReq' = [usReq EXCEPT ![UsNewSlot] = [pc |-> "ping", req |-> r]]

\* GET /health/ready up to its await: 503 at once when the flag is down or
\* there is no client, a ping otherwise.
UsReady(r) ==
    IF ~redisReady \/ redisClient = "null"
    THEN /\ usRes' = UsExchange(r, 503, RedisDown, "none")
         /\ usReq' = usReq
    ELSE /\ usRes' = NoUsRes
         /\ usReq' = [usReq EXCEPT ![UsNewSlot] = [pc |-> "ping", req |-> r]]

\* A request enters the user service: express.json(), then its route.  The
\* /users routes of a request whose body parses are the handlers above.
UsArrive(r) ==
    /\ Unparsable(r) \/ r.route # "/users"
    /\ (~Unparsable(r) /\ r.route = "/health/ready") => UsFreeSlots # {}
    /\ IF Unparsable(r)
       THEN usRes' = UsExchange(r, 500, UsInternalError, "none") /\ usReq' = usReq
       ELSE CASE r.route = "/health/live" -> UsLive(r)
              [] r.route = "/health/ready" -> UsReady(r)
              [] OTHER -> usRes' = UsExchange(r, 404, UsNotFound(r), "none")
                          /\ usReq' = usReq
    /\ gwRes' = NoGwRes
    /\ UNCHANGED <<redisReady, redisClient, gwReq>>

\* The ping of GET /health/ready resolves or rejects.
UsPingReturn(s, ok) ==
    /\ usReq[s].pc = "ping"
    /\ usRes' = IF ok THEN UsExchange(usReq[s].req, 200, RedisUp, "resolved")
                ELSE UsExchange(usReq[s].req, 503, RedisDown, "rejected")
    /\ usReq' = [usReq EXCEPT ![s] = UsIdle]
    /\ gwRes' = NoGwRes
    /\ UNCHANGED <<redisReady, redisClient, gwReq>>

\* ------------------------------------------------------------- API gateway
\* Date.now() and Math.random() in base 36: a value the client did not send.
GenIds == {"g1", "g2"}

\* A request-id middleware that always generates an id.
RequestIdFresh(r, gen) == gen

\* The request-id middleware: the inbound header, or a generated id.
RequestId(r, gen) == IF Truthy(r.rid) THEN r.rid ELSE gen

\* The responses of the user service to /users requests, by status.
UserData == User(1, "A", "a@x.com", 0)
UpResponses ==
    { Answered(200, UserData), Answered(201, UserData), Answered(204, NoData),
      Answered(400, [error |-> "validation_error",
                     message |-> "name y email son obligatorios"]),
      Answered(404, [error |-> "user_not_found", id |-> 1]),
      Answered(409, [error |-> "duplicate_email",
                     message |-> "Ya existe un usuario con ese email"]),
      Answered(500, [error |-> "failed_to_create_user"]) }
UpOutcomes == UpResponses \cup {TimedOut, Refused}

\* The responses of the user service to GET /health/live.
LiveOutcomes ==
    {Answered(200, [status |-> "alive", timestamp |-> 0]),
     Answered(500, UsInternalError), TimedOut, Refused}

\* axios resolves for a 2xx response and rejects otherwise; the rejection
\* carries the response when there was one.
Resolves(o) == o.kind = "response" /\ o.status \in 200..299

GwAlive == [status |-> "alive", timestamp |-> clock]
GwReady == [status |-> "ready", timestamp |-> clock,
            dependencies |-> [user_service |-> "up"]]
GwNotReady == [status |-> "not ready", timestamp |-> clock,
               dependencies |-> [user_service |-> "down"]]
GwNotFound(r) == [error |-> "not_found", path |-> r.route]

\* The body of the global error handler: JSON leaves out an undefined
\* request_id.
GwInternalError(requestId) ==
    IF requestId = Missing THEN [error |-> "internal_server_error"]
    ELSE [error |-> "internal_server_error", request_id |-> requestId]

GwFreeSlots == {s \in Slots : gwReq[s].pc = "idle"}
GwNewSlot == CHOOSE s \in GwFreeSlots : \A t \in GwFreeSlots : s <= t

\* A request enters the gateway: express.json(), the request-id middleware,
\* then its route up to its await or its response.  A body that does not parse
\* goes from express.json() to the error handler: req.requestId was never set
\* and neither was the X-Request-ID response header.
GwArrive(r, gen) ==
    /\ (~Unparsable(r) /\ r.route \in {"/health/ready", "/api/users"}) => GwFreeSlots # {}
    /\ IF Unparsable(r)
       THEN /\ gwRes' = GwExchange(r, 500, GwInternalError(Missing),
                                   Missing, Missing, NoCall)
            /\ gwReq' = gwReq
       ELSE LET requestId == RequestId(r, gen) IN
            CASE r.route = "/health/live" ->
                   /\ gwRes' = GwExchange(r, 200, GwAlive, requestId, Missing, NoCall)
                   /\ gwReq' = gwReq
              [] r.route = "/health/ready" ->
                   /\ gwRes' = NoGwRes
                   /\ gwReq' = [gwReq EXCEPT ![GwNewSlot] =
                                  [pc |-> "ready", req |-> r, requestId |-> requestId]]
              [] r.route = "/api/users" ->
                   /\ gwRes' = NoGwRes
                   /\ gwReq' = [gwReq EXCEPT ![GwNewSlot] =
                                  [pc |-> "proxy", req |-> r, requestId |-> requestId]]
              [] OTHER ->
                   /\ gwRes' = GwExchange(r, 404, GwNotFound(r), requestId,
                                          Missing, NoCall)
                   /\ gwReq' = gwReq
    /\ usRes' = NoUsRes
    /\ UNCHANGED <<redisReady, redisClient, usReq>>

\* The message of the proxy's catch branch.
UpstreamMessage(statusCode, o) ==
    IF statusCode = 502 THEN "User service no disponible"
    ELSE IF "message" \in DOMAIN o.data THEN o.data.message
    ELSE "Error procesando la peticion"

\* A proxy whose catch branch answers 500 when there was no response.
GwProxyReturnMasked(s, o) ==
    /\ gwReq[s].pc = "proxy"
    /\ LET g == gwReq[s]
           statusCode == IF o.kind = "response" THEN o.status ELSE 500
       IN gwRes' = IF Resolves(o)
                   THEN Observed(GwExchange(g.req, o.status, o.data,
                                            g.requestId, g.requestId, o), 1)
                   ELSE Observed(GwExchange(g.req, statusCode,
                                            [error |-> "upstream_error",
                                             message |-> UpstreamMessage(statusCode, o)],
                                            g.requestId, g.requestId, o), 1)
    /\ gwReq' = [gwReq EXCEPT ![s] = GwIdle]
    /\ usRes' = NoUsRes
    /\ UNCHANGED <<redisReady, redisClient, usReq>>

\* The call of the /api/users proxy returns: the response of the user service
\* when axios resolved, the catch branch otherwise.
GwProxyReturn(s, o) ==
    /\ gwReq[s].pc = "proxy"
    /\ LET g == gwReq[s]
           statusCode == IF o.kind = "response" THEN o.status ELSE 502
       IN gwRes' = IF Resolves(o)
                   THEN Observed(GwExchange(g.req, o.status, o.data,
                                            g.requestId, g.requestId, o), 1)
                   ELSE Observed(GwExchange(g.req, statusCode,
                                            [error |-> "upstream_error",
                                             message |-> UpstreamMessage(statusCode, o)],
                                            g.requestId, g.requestId, o), 1)
    /\ gwReq' = [gwReq EXCEPT ![s] = GwIdle]
    /\ usRes' = NoUsRes
    /\ UNCHANGED <<redisReady, redisClient, usReq>>

\* A readiness check that takes any response for success.
GwReadyReturnAnyAnswer(s, o) ==
    /\ gwReq[s].pc = "ready"
    /\ LET g == gwReq[s] IN
       gwRes' = IF o.kind = "response"
                THEN Observed(GwExchange(g.req, 200, GwReady, g.requestId, Missing, o), 1)
                ELSE GwExchange(g.req, 503, GwNotReady, g.requestId, Missing, o)
    /\ gwReq' = [gwReq EXCEPT ![s] = GwIdle]
    /\ usRes' = NoUsRes
    /\ UNCHANGED <<redisReady, redisClient, usReq>>

\* The call of GET /health/ready to the user service's /health/live returns.
\* The timer started before the call is stopped after it resolved; the catch
\* branch does not stop it.
GwReadyReturn(s, o) ==
    /\ gwReq[s].pc = "ready"
    /\ LET g == gwReq[s] IN
       gwRes' = IF Resolves(o)
                THEN Observed(GwExchange(g.req, 200, GwReady, g.requestId, Missing, o), 1)
                ELSE GwExchange(g.req, 503, GwNotReady, g.requestId, Missing, o)
    /\ gwReq' = [gwReq EXCEPT ![s] = GwIdle]
    /\ usRes' = NoUsRes
    /\ UNCHANGED <<redisReady, redisClient, usReq>>

\* ---------------------------------------------------------------- shutdown
\* The two processes.  Each has an HTTP server (listening, closing after
\* server.close(), closed once its last request is answered), `inflight`
\* requests accepted and not yet answered, the number of signals it has
\* handled, and its exit: the code, and the call that exited.  The user
\* service also has quit() promises: `quitting` are pending, `quitted` says
\* one resolved, so that the store connection is closed.
Services == {"gateway", "user"}
Running == [server |-> "listening", inflight |-> 0, signals |-> 0,
            quitting |-> 0, quitted |-> FALSE,
            state |-> "running", code |-> 0, by |-> "-"]
Exit(p, code, by) == [p EXCEPT !.state = "exited", !.code = code, !.by = by]

\* The server accepts a request.
Accept(svc) ==
    /\ proc[svc].state = "running"
    /\ proc[svc].server = "listening"
    /\ proc[svc].inflight < MaxReq
    /\ proc' = [proc EXCEPT ![svc].inflight = @ + 1]

\* A handler answers its request.
Answer(svc) ==
    /\ proc[svc].state = "running"
    /\ proc[svc].inflight > 0
    /\ proc' = [proc EXCEPT ![svc].inflight = @ - 1]

\* The promise of Promise.all([closingServer, closingRedis]) of the user
\* service resolves once the server has closed and quit() has resolved.
AllClosed(p) == p.server = "closed" /\ p.quitted

\* SIGTERM or SIGINT: shutdown().  The server stops accepting, the user
\* service calls quit() on its client in the same call, and the 10 s timer
\* is set.
Shutdown(svc) ==
    /\ proc[svc].state = "running"
    /\ proc[svc].signals < MaxSignals
    /\ LET p == proc[svc]
           closing == [p EXCEPT !.server = IF @ = "listening" THEN "closing" ELSE @,
                                !.signals = @ + 1]
       IN proc' = [proc EXCEPT ![svc] =
                     IF svc = "gateway" THEN closing
                     ELSE IF redisClient = "null" THEN [closing EXCEPT !.quitted = TRUE]
                     ELSE [closing EXCEPT !.quitting = @ + 1]]

\* The server's 'close' event: it was closing and no request is in flight.
\* The gateway's callback exits with 0; in the user service closingServer
\* resolves, and the process exits with 0 if quit() has resolved as well.
ServerClose(svc) ==
    /\ proc[svc].state = "running"
    /\ proc[svc].server = "closing"
    /\ proc[svc].inflight = 0
    /\ LET closed == [proc[svc] EXCEPT !.server = "closed"] IN
       proc' = [proc EXCEPT ![svc] =
                  IF svc = "gateway" \/ AllClosed(closed)
                  THEN Exit(closed, 0, "closed") ELSE closed]

\* A quit() promise of the user service settles.  Resolved: the connection
\* is closed, and the process exits with 0 if the server has closed as well.
\* Rejected: Promise.all rejects, nothing handles the rejection, and the
\* 'uncaughtException' handler exits with 1.
QuitReturn(ok) ==
    /\ proc["user"].state = "running"
    /\ proc["user"].quitting > 0
    /\ LET quit == [proc["user"] EXCEPT !.quitting = @ - 1, !.quitted = (@ \/ ok)] IN
       proc' = [proc EXCEPT !["user"] =
                  IF ~ok THEN Exit(quit, 1, "uncaughtException")
                  ELSE IF AllClosed(quit) THEN Exit(quit, 0, "closed")
                  ELSE quit]

\* The 10 s timer of shutdown() fires in a process that is still running.
TimerFires(svc) ==
    /\ proc[svc].state = "running"
    /\ proc[svc].signals > 0
    /\ proc' = [proc EXCEPT ![svc] = Exit(@, 1, "timer")]

\* ----------------------------------------------------------------- startup
\* NODE_ENV.
Envs == {"production", "development"}

\* reconnectStrategy of the client: how often it gives a delay, the unit and
\* the cap of the delay in ms.
MaxRetries == 10
DelayUnit == 100
DelayCap == 3000

Min(a, b) == IF a < b THEN a ELSE b

Delay(ms) == [kind |-> "delay", ms |-> ms]
GiveUp == [kind |-> "error", ms |-> 0]
NoResult == [kind |-> "-", ms |-> 0]

\* A strategy that gives up one attempt earlier.
reconnectStrategyEarly(retries) ==
    IF retries >= MaxRetries THEN GiveUp
    ELSE Delay(Min(retries * DelayUnit, DelayCap))

\* reconnectStrategy(retries): an Error after MaxRetries attempts, a delay
\* otherwise.
reconnectStrategy(retries) ==
    IF retries > MaxRetries THEN GiveUp
    ELSE Delay(Min(retries * DelayUnit, DelayCap))

\* The user service from the start of its process: start() is at `phase`
\* (created: not yet called; connecting: awaits connectRedis(); seeding:
\* awaits a command of initializeSampleData(), `seed` writes are done;
\* listening; exited).  The client's socket is at `conn` (none, connecting,
\* connected: 'connect' emitted, ready, closed: the strategy gave up) after
\* `retries` failed attempts in a row; the strategy was last called with
\* `attempt` and returned `last`; `lost` says the connection was lost once.
Created(env) ==
    [env |-> env, phase |-> "created", seed |-> 0, conn |-> "none", retries |-> 0,
     attempt |-> 0, last |-> NoResult, lost |-> FALSE]
Started ==
    [env |-> "production", phase |-> "listening", seed |-> 0, conn |-> "ready",
     retries |-> 0, attempt |-> 0, last |-> NoResult, lost |-> FALSE]
NotListening == [Running EXCEPT !.server = "none"]

\* The sample users of initializeSampleData().
SampleUser(k, id, now) ==
    IF k = 1 THEN User(id, "Alice Example", "alice@test.com", now)
    ELSE User(id, "Bob Example", "bob@test.com", now)

\* shutdown() has called quit() on the client.
QuitCalled == proc["user"].signals > 0

\* What the steps of startup and the events of the socket leave alone.
Calm == usRes' = NoUsRes /\ gwRes' = NoGwRes /\ UNCHANGED <<usReq, gwReq>>
Still == UNCHANGED <<store, index, usersTotal, clock, uuidCount, req, res, net, hist>>

\* server = http.createServer(app); server.listen(PORT)
Listen == proc' = [proc EXCEPT !["user"].server = "listening"]

\* The catch of start(): process.exit(1).
Fatal == proc' = [proc EXCEPT !["user"] = Exit(@, 1, "start")]

\* A start() that listens before it connects.
StartListening ==
    /\ boot.phase = "created"
    /\ boot' = [boot EXCEPT !.phase = "connecting", !.conn = "connecting"]
    /\ redisClient' = "client"
    /\ redisReady' = redisReady
    /\ Listen
    /\ Calm /\ Still

\* start() up to its first await: connectRedis() creates the client,
\* registers the handlers and calls connect().
Start ==
    /\ boot.phase = "created"
    /\ boot' = [boot EXCEPT !.phase = "connecting", !.conn = "connecting"]
    /\ redisClient' = "client"
    /\ redisReady' = redisReady
    /\ proc' = proc
    /\ Calm /\ Still

\* The socket connects: 'connect'.
SocketConnect ==
    /\ proc["user"].state = "running"
    /\ boot.conn = "connecting"
    /\ boot' = [boot EXCEPT !.conn = "connected"]
    /\ OnConnect
    /\ proc' = proc
    /\ Still

\* The connection is ready for commands: 'ready'.  When start() awaits
\* connect(), it goes on: initializeSampleData() returns at once in
\* production, and the server listens; otherwise it sends sMembers.
SocketReady ==
    /\ proc["user"].state = "running"
    /\ boot.conn = "connected"
    /\ OnReady
    /\ IF boot.phase # "connecting"
       THEN /\ boot' = [boot EXCEPT !.conn = "ready", !.retries = 0]
            /\ proc' = proc
       ELSE IF boot.env = "production"
       THEN /\ boot' = [boot EXCEPT !.conn = "ready", !.retries = 0,
                                    !.phase = "listening"]
            /\ Listen
       ELSE /\ boot' = [boot EXCEPT !.conn = "ready", !.retries = 0,
                                    !.phase = "seeding"]
            /\ proc' = proc
    /\ Still

\* An attempt to connect fails: the strategy is asked.  A delay: 'error',
\* and the next attempt follows unless quit() was called.  An Error: 'error', the client closes, and
\* a connect() that start() awaits rejects.
AttemptFails ==
    /\ proc["user"].state = "running"
    /\ boot.conn \in {"connecting", "connected"}
    /\ LET r == reconnectStrategy(boot.retries)
           b == [boot EXCEPT !.attempt = boot.retries, !.last = r]
       IN IF r.kind = "delay"
          THEN /\ boot' = [b EXCEPT !.conn = IF QuitCalled THEN "closed" ELSE "connecting",
                                      !.retries = @ + 1]
               /\ proc' = proc
          ELSE IF boot.phase = "connecting"
          THEN /\ boot' = [b EXCEPT !.conn = "closed", !.phase = "exited"]
               /\ Fatal
          ELSE /\ boot' = [b EXCEPT !.conn = "closed"]
               /\ proc' = proc
    /\ OnError
    /\ Still

\* The connection of a ready client is lost: 'error', and the client starts
\* to reconnect unless quit() was called.
ConnLost ==
    /\ proc["user"].state = "running"
    /\ boot.conn = "ready"
    /\ boot' = [boot EXCEPT !.conn = IF QuitCalled THEN "closed" ELSE "connecting",
                            !.retries = 0, !.lost = TRUE]
    /\ OnError
    /\ proc' = proc
    /\ Still

\* initializeSampleData(): sMembers answers or rejects (a command resolves only over a ready connection).  A rejection
\* ends start() in its catch; an index with members ends the initialisation, and
\* the server listens; otherwise the first set is sent.
SeedSMembers(ok) ==
    /\ proc["user"].state = "running"
    /\ boot.phase = "seeding" /\ boot.seed = 0
    /\ ok => boot.conn = "ready"
    /\ IF ~ok THEN boot' = [boot EXCEPT !.phase = "exited"] /\ Fatal
       ELSE IF index # {} THEN boot' = [boot EXCEPT !.phase = "listening"] /\ Listen
       ELSE boot' = [boot EXCEPT !.seed = 1] /\ proc' = proc
    /\ UNCHANGED <<redisReady, redisClient>>
    /\ Calm /\ Still

\* initializeSampleData(): the set or the sAdd of a sample user answers or
\* rejects.  After the last sAdd the gauge is set and the server listens.
SeedWrite(ok) ==
    /\ proc["user"].state = "running"
    /\ boot.phase = "seeding" /\ boot.seed \in 1..4
    /\ ok => boot.conn = "ready"
    /\ LET k == (boot.seed + 1) \div 2
           id == uuidCount + k
       IN IF ~ok
          THEN /\ boot' = [boot EXCEPT !.phase = "exited"]
               /\ Fatal
               /\ UNCHANGED <<store, index, usersTotal, uuidCount>>
          ELSE /\ IF boot.seed % 2 = 1
                  THEN /\ store' = [store EXCEPT ![id] =
                                      JSONstringify(SampleUser(k, id, clock))]
                       /\ index' = index
                  ELSE /\ index' = index \cup {id}
                       /\ store' = store
               /\ IF boot.seed < 4
                  THEN /\ boot' = [boot EXCEPT !.seed = @ + 1]
                       /\ UNCHANGED <<usersTotal, uuidCount, proc>>
                  ELSE /\ boot' = [boot EXCEPT !.seed = 0, !.phase = "listening"]
                       /\ usersTotal' = 2
                       /\ uuidCount' = uuidCount + 2
                       /\ Listen
    /\ UNCHANGED <<redisReady, redisClient, clock, req, res, net, hist>>
    /\ Calm

\* GET /health/ready of the listening service.
BootReady(r) ==
    /\ proc["user"].state = "running" /\ proc["user"].server = "listening"
    /\ r.route = "/health/ready"
    /\ UsArrive(r)
    /\ UNCHANGED <<boot, proc>>
    /\ Still

\* Its ping: it resolves only over a ready connection.
BootPingReturn(s, ok) ==
    /\ proc["user"].state = "running"
    /\ ok => boot.conn = "ready"
    /\ UsPingReturn(s, ok)
    /\ UNCHANGED <<boot, proc>>
    /\ Still

\* SIGTERM or SIGINT in the listening service.
BootShutdown ==
    /\ boot.phase = "listening"
    /\ Shutdown("user")
    /\ UNCHANGED <<boot, redisReady, redisClient>>
    /\ Calm /\ Still

\* Its server has closed.
BootServerClose ==
    /\ ServerClose("user")
    /\ UNCHANGED <<boot, redisReady, redisClient>>
    /\ Calm /\ Still

\* A quit() settles.  It resolves only over a ready connection, and the
\* client then closes its socket: 'end'.
BootQuitReturn(ok) ==
    /\ ok => boot.conn = "ready"
    /\ QuitReturn(ok)
    /\ IF ok THEN boot' = [boot EXCEPT !.conn = "closed"] /\ OnEnd
       ELSE UNCHANGED <<boot, redisReady, redisClient>> /\ Calm
    /\ Still

\* The timer of shutdown() fires.
BootTimerFires ==
    /\ TimerFires("user")
    /\ UNCHANGED <<boot, redisReady, redisClient>>
    /\ Calm /\ Still

\* Redis at the start of a process: empty, or with a user of an earlier one.
InitBoot ==
    /\ \/ store = [i \in Ids |-> None] /\ index = {} /\ uuidCount = 0
       \/ /\ store = [i \in Ids |-> IF i = 1 THEN JSONstringify(User(1, "A", "a@x.com", 0))
                                    ELSE None]
          /\ index = {1}
          /\ uuidCount = 1
    /\ usersTotal = 0
    /\ clock = 0
    /\ req = [s \in Slots |-> Idle]
    /\ res = NoRes
    /\ net = 0
    /\ hist = [i \in Ids |-> Untouched]
    /\ redisReady = FALSE
    /\ redisClient = "null"
    /\ usReq = [s \in Slots |-> UsIdle]
    /\ usRes = NoUsRes
    /\ gwReq = [s \in Slots |-> GwIdle]
    /\ gwRes = NoGwRes
    /\ proc = [svc \in Services |-> IF svc = "user" THEN NotListening ELSE Running]
    /\ \E env \in Envs : boot = Created(env)

NextBoot ==
    \/ Start
    \/ SocketConnect
    \/ SocketReady
    \/ AttemptFails
    \/ ConnLost
    \/ \E ok \in BOOLEAN : SeedSMembers(ok)
    \/ \E ok \in BOOLEAN : SeedWrite(ok)
    \/ \E r \in UsRequests : BootReady(r)
    \/ \E s \in Slots, ok \in BOOLEAN : BootPingReturn(s, ok)
    \/ BootShutdown
    \/ BootServerClose
    \/ \E ok \in BOOLEAN : BootQuitReturn(ok)
    \/ BootTimerFires

SpecBoot == InitBoot /\ [][NextBoot]_vars

\* ------------------------------------------------------------ specification
\* The state once both services have started: the store is empty, the client
\* is connected, the servers listen and nothing is in flight.
Init ==
    /\ store = [i \in Ids |-> None]
    /\ index = {}
    /\ usersTotal = 0
    /\ clock = 0
    /\ uuidCount = 0
    /\ req = [s \in Slots |-> Idle]
    /\ res = NoRes
    /\ net = 0
    /\ hist = [i \in Ids |-> Untouched]
    /\ redisReady = TRUE
    /\ redisClient = "client"
    /\ usReq = [s \in Slots |-> UsIdle]
    /\ usRes = NoUsRes
    /\ gwReq = [s \in Slots |-> GwIdle]
    /\ gwRes = NoGwRes
    /\ proc = [svc \in Services |-> Running]
    /\ boot = Started

\* The history variables follow the responses and the writes.
Track ==
    /\ net' = net + (IF res'.status = 201 THEN 1 ELSE IF res'.status = 204 THEN -1 ELSE 0)
    /\ hist' = [i \in Ids |->
                  IF res'.status = 201 /\ res'.body.id = i THEN Posted(res'.body)
                  ELSE IF res'.status = 204 /\ res'.id = i THEN Deleted
                  ELSE IF store'[i] # store[i] THEN Written
                  ELSE hist[i]]
    /\ UNCHANGED <<edgeVars, downVars, bootVars>>

\* No history is kept, and everything happens within one reading of the clock.
Frozen == UNCHANGED <<clock, net, hist, edgeVars, downVars, bootVars>>

\* The fields that request bodies carry under Spec: one name or an empty one,
\* one of the emails or none.
SpecNames == {"A", ""}
SpecEmails == Emails \cup {Missing}

\* Requests interleave and Redis commands may reject.  A request arrives and
\* its handler runs to its second await or to its response; or the pending
\* Redis command of a handler in flight answers (ok) or rejects.
Next ==
    \/ \E ok \in BOOLEAN : ListSMembers(ok) /\ Frozen
    \/ \E id \in Ids, ok \in BOOLEAN : GetUser(id, ok) /\ Frozen
    \/ \E name \in SpecNames, email \in SpecEmails : PostArrive(name, email) /\ Frozen
    \/ \E id \in Ids, name \in SpecNames, email \in SpecEmails, ok \in BOOLEAN :
          PutGet(id, name, email, ok) /\ Frozen
    \/ \E id \in Ids, ok \in BOOLEAN : DeleteDel(id, ok) /\ Frozen
    \/ \E s \in Slots, ok \in BOOLEAN : ListExec(s, ok) /\ Frozen
    \/ \E s \in Slots, ok \in BOOLEAN : PostSMembers(s, ok) /\ Frozen
    \/ \E s \in Slots, ok \in BOOLEAN : PostScan(s, ok) /\ Frozen
    \/ \E s \in Slots, ok \in BOOLEAN : PostSet(s, ok) /\ Frozen
    \/ \E s \in Slots, ok \in BOOLEAN : PostSAdd(s, ok) /\ Frozen
    \/ \E s \in Slots, ok \in BOOLEAN : PutSet(s, ok) /\ Frozen
    \/ \E s \in Slots, ok \in BOOLEAN : DeleteSRem(s, ok) /\ Frozen

Spec == Init /\ [][Next]_vars

\* Requests are handled one after the other: a request arrives only when no
\* handler is in flight.  Redis commands may reject, the clock runs, and the
\* history is kept.
Quiet == \A s \in Slots : req[s].pc = "idle"

NextSeq ==
    \/ \E ok \in BOOLEAN : Quiet /\ ListSMembers(ok) /\ Track
    \/ \E id \in Ids, ok \in BOOLEAN : Quiet /\ GetUser(id, ok) /\ Track
    \/ \E name \in NameInputs, email \in EmailInputs :
          Quiet /\ PostArrive(name, email) /\ Track
    \/ \E id \in Ids, body \in PutBodies, ok \in BOOLEAN :
          Quiet /\ PutRequest(id, body, ok) /\ Track
    \/ \E id \in Ids, ok \in BOOLEAN : Quiet /\ DeleteDel(id, ok) /\ Track
    \/ \E s \in Slots, ok \in BOOLEAN : ListExec(s, ok) /\ Track
    \/ \E s \in Slots, ok \in BOOLEAN : PostSMembers(s, ok) /\ Track
    \/ \E s \in Slots, ok \in BOOLEAN : PostScan(s, ok) /\ Track
    \/ \E s \in Slots, ok \in BOOLEAN : PostSet(s, ok) /\ Track
    \/ \E s \in Slots, ok \in BOOLEAN : PostSAdd(s, ok) /\ Track
    \/ \E s \in Slots, ok \in BOOLEAN : PutSet(s, ok) /\ Track
    \/ \E s \in Slots, ok \in BOOLEAN : DeleteSRem(s, ok) /\ Track
    \/ Tick /\ Track

SpecSeq == Init /\ [][NextSeq]_vars

\* ------------------------------------------------------------------ claims
\* The record stored under key user:<i>.
RecordAt(i) == JSONparse(store[i])

\* C1: at most one stored record holds any given email value, whatever POST,
\* PUT and DELETE requests were handled.
C1_EmailUnique ==
    \A i, j \in Ids :
        (store[i] # None /\ store[j] # None /\ RecordAt(i).email = RecordAt(j).email)
            => i = j

\* C2: an id is in users:index if and only if a record exists under user:<id>.
C2_IndexIffRecord ==
    \A i \in Ids : (i \in index) <=> (store[i] # None)

\* C3: a POST /users that has finished its scan does not look at the store
\* again: unless a Redis command rejects it writes its record, adds its id and
\* answers 201, whatever another request has written in the meantime.  Two
\* POSTs with the same email that both finished the scan before either wrote
\* therefore both answer 201 and leave two records with that email.
C3_NoRecheckAfterScan ==
    [][\A s \in Slots :
          (req[s].method = "POST /users" /\ req'[s] # req[s]) =>
             /\ req[s].pc = "set" =>
                   \/ res'.status = 500
                   \/ /\ res' = NoRes
                      /\ req'[s].pc = "sAdd"
                      /\ store'[req[s].user.id] # None
                      /\ JSONparse(store'[req[s].user.id]).email = req[s].user.email
             /\ req[s].pc = "sAdd" =>
                   \/ res'.status = 500
                   \/ /\ res'.status = 201
                      /\ res'.body.email = req[s].user.email
                      /\ req[s].user.id \in index']_vars

\* C3 witness: two POSTs with the same email are in flight, both have finished
\* the scan and both have written their record.
C3_TwoPostsSameEmail ==
    \E s, t \in Slots :
        /\ s # t
        /\ req[s].method = "POST /users" /\ req[t].method = "POST /users"
        /\ req[s].pc = "sAdd" /\ req[t].pc = "sAdd"
        /\ req[s].user.email = req[t].user.email
        /\ store[req[s].user.id] # None /\ store[req[t].user.id] # None
        /\ RecordAt(req[s].user.id).email = RecordAt(req[t].user.id).email

\* A record that users:index lists holds the email of the POST in slot s: when
\* requests are handled one after the other these are the records that a POST
\* answered 201 for and that no DELETE has removed.
Held(s) ==
    \E i \in index : store[i] # None /\ RecordAt(i).email = req[s].user.email

\* Some record other than its own holds the email of the POST in slot s.
Existing(s) ==
    \E i \in Ids : /\ i # req[s].user.id
                   /\ store[i] # None
                   /\ RecordAt(i).email = req[s].user.email

\* C4: when requests are handled one after the other and a record that a POST
\* answered 201 for, and that was not deleted, holds email e, no step of a
\* later POST /users with email e writes a record or an index entry, and the
\* POST ends with 409 duplicate_email (with 500 if one of its Redis commands
\* rejects).
C4_DuplicateRejected ==
    [][\A s \in Slots :
          (req[s].method = "POST /users" /\ req'[s] # req[s] /\ Held(s)) =>
             /\ store' = store
             /\ index' = index
             /\ req'[s].pc \in {"scan", "idle"}
             /\ req'[s].pc = "idle" =>
                   \/ res'.status = 500
                   \/ /\ res'.status = 409
                      /\ res'.body.error = "duplicate_email"]_vars

\* C4 witness: a POST was answered 409 while the one record that holds its
\* email is still the only record and the only index entry.
C4_Rejected ==
    /\ res.method = "POST /users" /\ res.status = 409
    /\ Cardinality(index) = 1
    /\ \A i \in Ids : (store[i] # None) <=> (i \in index)
    /\ \E i \in Ids : hist[i].tag = "posted"

\* C5: a POST /users with non-empty name and email builds a record with a
\* fresh id, the given name and email and created_at = updated_at = now; when
\* requests are handled one after the other and no record holds the email, it
\* is never answered 409: unless one of its Redis commands rejects (500), it
\* stores the record under user:<id>, adds the id to users:index and answers
\* 201 with the record.
C5_CreateReturnsRecord ==
    [][/\ \A name \in NameInputs, email \in EmailInputs :
             (Truthy(name) /\ Truthy(email) /\ PostArrive(name, email)) =>
                LET u == req'[NewSlot].user
                IN  /\ u.name = name /\ u.email = email
                    /\ u.created_at = clock /\ u.updated_at = clock
                    /\ u.id \notin index /\ store[u.id] = None
                    /\ \A i \in Ids : store[i] # None => RecordAt(i).id # u.id
       /\ \A s \in Slots :
             (/\ req[s].method = "POST /users" /\ req'[s] # req[s]
              /\ ~Existing(s) /\ res'.status # 500) =>
                LET u == req[s].user
                IN  /\ req[s].pc \in {"sMembers", "scan"} =>
                          /\ res' = NoRes
                          /\ req'[s].pc \in {"scan", "set"}
                          /\ req'[s].user = u
                          /\ store' = store /\ index' = index
                    /\ req[s].pc = "set" =>
                          /\ res' = NoRes
                          /\ req'[s].pc = "sAdd"
                          /\ req'[s].user = u
                          /\ store' = [store EXCEPT ![u.id] =
                                <<u.id, u.name, u.email, u.created_at, u.updated_at>>]
                          /\ index' = index
                    /\ req[s].pc = "sAdd" =>
                          /\ res'.status = 201
                          /\ res'.body = u
                          /\ res'.body.created_at = res'.body.updated_at
                          /\ u.id \notin index
                          /\ index' = index \cup {u.id}
                          /\ store' = store
                          /\ JSONparse(store'[u.id]) = u]_vars

\* C5 witness: a second record was created, after the clock moved.
C5_Created ==
    /\ res.method = "POST /users" /\ res.status = 201
    /\ res.body.created_at = MaxTime
    /\ index = Ids
    /\ RecordAt(res.body.id) = res.body

\* C6: when requests are handled one after the other, GET /users/:id of a
\* record that a POST created and nothing has written since answers 200 with
\* the record the POST returned; after a DELETE of the id answered 204 it
\* answers 404 user_not_found with the id (500 in both cases if its get
\* rejects).
C6_GetAfterCreateAndDelete ==
    [][\A i \in Ids :
          (res'.method = "GET /users/:id" /\ res'.id = i /\ res'.status # 500) =>
             /\ hist[i].tag = "posted" =>
                   /\ res'.status = 200
                   /\ res'.body = hist[i].user
             /\ hist[i].tag = "deleted" =>
                   /\ res'.status = 404
                   /\ res'.body = [error |-> "user_not_found", id |-> i]]_vars

\* C6 witness: a GET of a created and then deleted id was answered, while
\* another created record is still there.
C6_GetAfterDelete ==
    /\ res.method = "GET /users/:id" /\ res.status = 404
    /\ hist[res.id].tag = "deleted"
    /\ \E j \in Ids : hist[j].tag = "posted"

\* C7: when requests are handled one after the other, a PUT /users/:id of an
\* existing record whose body carries a name and no email builds a record
\* with the new name, updated_at = now, and the email, id and created_at of
\* the stored one; until the PUT answers nothing else writes; and unless its
\* set rejects (500, nothing written) the PUT answers 200 with the record it
\* built, which replaces the stored one, while no other record and no index
\* entry changes.
C7_PutNameOnly ==
    [][/\ \A id \in Ids, name \in Names, email \in {Missing, ""} :
             (store[id] # None /\ PutGet(id, name, email, TRUE)) =>
                LET old == RecordAt(id)
                    u == req'[NewSlot].user
                IN  /\ req'[NewSlot].id = id
                    /\ u.name = name
                    /\ u.updated_at = clock /\ u.updated_at >= old.updated_at
                    /\ u.email = old.email /\ u.id = old.id
                    /\ u.created_at = old.created_at
                    /\ store' = store /\ index' = index
       /\ \A s \in Slots :
             req[s].method = "PUT /users/:id" =>
                LET u == req[s].user
                IN  IF req'[s] = req[s] \/ res'.status = 500
                    THEN store' = store /\ index' = index
                    ELSE /\ res'.status = 200
                         /\ res'.id = req[s].id
                         /\ res'.body = u
                         /\ store' = [store EXCEPT ![req[s].id] =
                               <<u.id, u.name, u.email, u.created_at, u.updated_at>>]
                         /\ JSONparse(store'[req[s].id]) = u
                         /\ index' = index]_vars

\* C7 witness: a PUT changed the name of one of two records after the clock
\* moved, and the record kept its email.
C7_Renamed ==
    /\ res.method = "PUT /users/:id" /\ res.status = 200
    /\ res.body.name = "B" /\ res.body.email = "a@x.com"
    /\ res.body.updated_at > res.body.created_at
    /\ hist[res.id].tag = "written"
    /\ index = Ids
    /\ \E j \in Ids : hist[j].tag = "posted" /\ RecordAt(j).name = "A"

\* C8: a DELETE /users/:id whose del finds no record answers 404
\* user_not_found with the id, issues no sRem, and leaves the records, the
\* index and the gauge as they were; a DELETE answers 404 in no other case.
C8_DeleteMissing ==
    [][/\ \A id \in Ids :
             (store[id] = None /\ DeleteDel(id, TRUE)) =>
                /\ res'.status = 404
                /\ res'.body = [error |-> "user_not_found", id |-> id]
                /\ store' = store /\ index' = index /\ usersTotal' = usersTotal
                /\ req' = req
       /\ (res'.method = "DELETE /users/:id" /\ res'.status = 404) =>
                /\ store[res'.id] = None
                /\ store' = store /\ index' = index /\ usersTotal' = usersTotal
                /\ req' = req]_vars

\* C8 witness: a DELETE of an id without a record was answered 404 and the
\* index still has entries, the deleted id among them.
C8_NotFound ==
    /\ res.method = "DELETE /users/:id" /\ res.status = 404
    /\ store[res.id] = None
    /\ res.id \in index

\* C9: after any sequence of completed requests, GET /users (unless one of
\* its Redis commands rejects) answers 200 with the empty list when no record
\* is stored, and otherwise with as many records as POSTs answered 201 minus
\* DELETEs answered 204.
C9_ListLength ==
    [][(res'.method = "GET /users" /\ res'.status # 500) =>
          /\ res'.status = 200
          /\ IF \A i \in Ids : store[i] = None
             THEN res'.body = <<>>
             ELSE Len(res'.body) = net]_vars

\* What a rejected validation leaves behind.
Rejected400 ==
    /\ res'.status = 400
    /\ res'.body.error = "validation_error"
    /\ UNCHANGED <<store, index, usersTotal, req, uuidCount>>

\* C10: a POST /users without a non-empty name or without a non-empty email,
\* and a PUT /users/:id with neither, is answered 400 validation_error before
\* any Redis command: whether or not Redis answers, nothing is read or
\* written and no handler stays in flight.
C10_ValidationFirst ==
    [][/\ \A name \in SpecNames, email \in SpecEmails :
             ((~Truthy(name) \/ ~Truthy(email)) /\ PostArrive(name, email))
                => Rejected400
       /\ \A id \in Ids, name \in SpecNames, email \in SpecEmails, ok \in BOOLEAN :
             ((~Truthy(name) /\ ~Truthy(email)) /\ PutGet(id, name, email, ok))
                => Rejected400
       /\ res'.status = 400 => Rejected400]_vars

\* C10 witness: a PUT with neither field, on an id that has a record, was
\* answered 400 while another handler is in flight.
C10_PutRejected ==
    /\ res.method = "PUT /users/:id" /\ res.status = 400
    /\ store[res.id] # None
    /\ \E s \in Slots : req[s].pc # "idle"
\* ------------------------------------------------- further specifications
\* The request pipelines of both services outside the /users handlers: health
\* checks, the proxy, unknown routes, bodies that do not parse, and the
\* connection events of the Redis client.
NextEdge ==
    \/ \E r \in UsRequests : UsArrive(r) /\ UNCHANGED <<coreVars, downVars, bootVars>>
    \/ \E s \in Slots, ok \in BOOLEAN : UsPingReturn(s, ok) /\ UNCHANGED <<coreVars, downVars, bootVars>>
    \/ OnConnect /\ UNCHANGED <<coreVars, downVars, bootVars>>
    \/ OnReady /\ UNCHANGED <<coreVars, downVars, bootVars>>
    \/ OnError /\ UNCHANGED <<coreVars, downVars, bootVars>>
    \/ OnEnd /\ UNCHANGED <<coreVars, downVars, bootVars>>
    \/ \E r \in GwRequests, gen \in GenIds : GwArrive(r, gen) /\ UNCHANGED <<coreVars, downVars, bootVars>>
    \/ \E s \in Slots, o \in UpOutcomes : GwProxyReturn(s, o) /\ UNCHANGED <<coreVars, downVars, bootVars>>
    \/ \E s \in Slots, o \in LiveOutcomes : GwReadyReturn(s, o) /\ UNCHANGED <<coreVars, downVars, bootVars>>

SpecEdge == Init /\ [][NextEdge]_vars

\* The timeout that axios is given ends a call of the gateway that has not
\* settled: 10000 ms in the proxy, 2000 ms in the readiness check.  The
\* commands of the Redis client are given no timeout.  Both actions change
\* gwReq.
FairEdge ==
    /\ SpecEdge
    /\ \A s \in Slots : WF_gwReq(GwProxyReturn(s, TimedOut) /\ UNCHANGED <<coreVars, downVars, bootVars>>)
    /\ \A s \in Slots : WF_gwReq(GwReadyReturn(s, TimedOut) /\ UNCHANGED <<coreVars, downVars, bootVars>>)

\* The processes from the first signal to their exit.
NextDown ==
    \/ \E svc \in Services : Accept(svc) /\ UNCHANGED <<coreVars, edgeVars, bootVars>>
    \/ \E svc \in Services : Answer(svc) /\ UNCHANGED <<coreVars, edgeVars, bootVars>>
    \/ \E svc \in Services : Shutdown(svc) /\ UNCHANGED <<coreVars, edgeVars, bootVars>>
    \/ \E svc \in Services : ServerClose(svc) /\ UNCHANGED <<coreVars, edgeVars, bootVars>>
    \/ \E ok \in BOOLEAN : QuitReturn(ok) /\ UNCHANGED <<coreVars, edgeVars, bootVars>>
    \/ \E svc \in Services : TimerFires(svc) /\ UNCHANGED <<coreVars, edgeVars, bootVars>>

SpecDown == Init /\ [][NextDown]_vars

\* The timer that shutdown() sets fires if the process is still running;
\* TimerFires changes proc only.
FairDown == SpecDown /\ \A svc \in Services : WF_proc(TimerFires(svc))

\* ------------------------------------------------------ claims on records
\* The ids whose record exists.
Stored == {i \in Ids : store[i] # None}

\* A handler in flight works on id i.
InFlight(i) ==
    \E s \in Slots : req[s].pc # "idle" /\ (req[s].id = i \/ req[s].user.id = i)

\* C23: when no request is in flight, the users_total gauge is the number
\* of records in the store.
C23_GaugeIsCount ==
    Quiet => usersTotal = Cardinality(Stored)

C25_IdAndCreationKept ==
    [][\A i \in Ids :
          /\ store'[i] # None => JSONparse(store'[i]).id = i
          /\ (store[i] # None /\ store'[i] # None) =>
                JSONparse(store'[i]).created_at = RecordAt(i).created_at
          /\ (res'.method = "PUT /users/:id" /\ res'.status = 200 /\ res'.id = i) =>
                /\ store[i] # None =>
                      res'.body.created_at = RecordAt(i).created_at
                /\ res'.body.id = i
                /\ JSONparse(store'[i]) = res'.body]_vars

\* C25 witness: a PUT rewrote a record after the clock moved, and the
\* record holds the id and the created_at it was created with.
C25_RewrittenLater ==
    /\ res.method = "PUT /users/:id" /\ res.status = 200
    /\ hist[res.id].tag = "written"
    /\ store[res.id] # None
    /\ RecordAt(res.id).id = res.id
    /\ RecordAt(res.id).updated_at > RecordAt(res.id).created_at

\* C29: once a DELETE has answered 204 and no PUT of the same id is in
\* flight, no record exists under user:<id>.
C29_DeleteDurable ==
    ( /\ res.method = "DELETE /users/:id" /\ res.status = 204
      /\ \A s \in Slots : ~(req[s].method = "PUT /users/:id" /\ req[s].id = res.id) )
        => store[res.id] = None

\* -------------------------------------------------- claims on the pipelines
\* The gateway completed a proxied exchange: its call to the user service
\* returned and it answered the caller.
Proxied == gwRes.req.route = "/api/users" /\ gwRes.up # NoCall

\* The correlation id of a request: its X-Request-ID header when it carries
\* one, an id that the gateway generated otherwise.
IsCorrelationId(r, v) == IF Truthy(r.rid) THEN v = r.rid ELSE v \in GenIds

\* C11: on /api/users the gateway answers with exactly the status and body
\* of the user service when the call succeeded, and with exactly 502 and error
\* upstream_error when the call got no response (timeout, no connection).
C11_ProxyOutcome ==
    Proxied =>
        /\ (gwRes.up.kind = "response" /\ gwRes.up.status \in 200..299) =>
               gwRes.status = gwRes.up.status /\ gwRes.body = gwRes.up.data
        /\ gwRes.up.kind \in {"timeout", "refused"} =>
               gwRes.status = 502 /\ gwRes.body.error = "upstream_error"

\* C11 witness: the call of a proxied request timed out and the gateway
\* answered 502.
C11_BadGateway ==
    Proxied /\ gwRes.up.kind = "timeout" /\ gwRes.status = 502

\* C12: whatever the user service answered to a proxied request (400, 404,
\* 409 and 500 included), the gateway's response has the same status and the
\* same body.
C12_SameStatusAndBody ==
    (Proxied /\ gwRes.up.kind = "response") =>
        gwRes.status = gwRes.up.status /\ gwRes.body = gwRes.up.data

\* C13: the gateway's GET /health/ready answers 200 ready exactly when its
\* call to the user service's /health/live got a 2xx response in time, and
\* 503 not ready when the call timed out or failed.
C13_GatewayReady ==
    (gwRes.req.route = "/health/ready" /\ gwRes.up # NoCall) =>
        IF gwRes.up.kind = "response" /\ gwRes.up.status \in 200..299
        THEN gwRes.status = 200 /\ gwRes.body.status = "ready"
        ELSE gwRes.status = 503 /\ gwRes.body.status = "not ready"

\* C13 witness: the user service answered /health/live with an error status
\* and the gateway reported 503.
C13_UpstreamUnhealthy ==
    /\ gwRes.req.route = "/health/ready"
    /\ gwRes.up.kind = "response" /\ gwRes.up.status = 500
    /\ gwRes.status = 503

C15_AlwaysAlive ==
    [][/\ \A r \in UsRequests :
            (~Unparsable(r) /\ UsArrive(r)) =>
                /\ r.route = "/health/live" =>
                      /\ usRes'.status = 200 /\ usRes'.body.status = "alive"
                      /\ usRes'.ping = "none" /\ usReq' = usReq
                /\ (r.route = "/health/ready" /\ ~redisReady) => usRes'.status = 503
       /\ \A r \in GwRequests, gen \in GenIds :
            (~Unparsable(r) /\ r.route = "/health/live" /\ GwArrive(r, gen)) =>
                /\ gwRes'.status = 200 /\ gwRes'.body.status = "alive"
                /\ gwRes'.up = NoCall /\ gwReq' = gwReq
       /\ \A r \in UsRequests :
            (~Unparsable(r) /\ r.route = "/health/live") => ENABLED UsArrive(r)
       /\ \A r \in GwRequests, gen \in GenIds :
            (~Unparsable(r) /\ r.route = "/health/live") => ENABLED GwArrive(r, gen)]_vars

\* C15 witness: Redis is down, a readiness check is waiting for its ping,
\* and GET /health/live was answered 200.
C15_AliveWhileDown ==
    /\ ~redisReady
    /\ \E s \in Slots : usReq[s].pc = "ping"
    /\ usRes.req.route = "/health/live" /\ usRes.status = 200

\* C16: for a proxied request the X-Request-ID sent to the user service is
\* the X-Request-ID of the gateway's response, and it is the request's header
\* when it carries one and an id that the gateway generated otherwise.
C16_SameRequestId ==
    Proxied =>
        /\ gwRes.fwd = gwRes.rid
        /\ IsCorrelationId(gwRes.req, gwRes.rid)

\* C16 witness: a proxied request without the header was answered with a
\* generated id, and one with the header is in flight.
C16_GeneratedId ==
    /\ Proxied /\ gwRes.req.rid = Missing /\ gwRes.rid \in GenIds
    /\ \E s \in Slots : gwReq[s].pc = "proxy" /\ gwReq[s].req.rid = "r1"

\* The exchange ended in the gateway's global error handler.
GwFailed ==
    /\ gwRes.status # 0
    /\ "error" \in DOMAIN gwRes.body
    /\ gwRes.body.error = "internal_server_error"

\* C17: the response of the gateway's global error handler is a 500 whose
\* body carries the request's correlation id, whichever stage raised the
\* error, the JSON body parser included.
C17_ErrorCarriesId ==
    GwFailed =>
        /\ gwRes.status = 500
        /\ "request_id" \in DOMAIN gwRes.body
        /\ IsCorrelationId(gwRes.req, gwRes.body.request_id)

\* C18: a request whose body is not parsable JSON is answered 400 by either
\* service, never 500.
C18_MalformedIs400 ==
    /\ (Unparsable(usRes.req) /\ usRes.status # 0) => usRes.status = 400
    /\ (Unparsable(gwRes.req) /\ gwRes.status # 0) => gwRes.status = 400

\* C28: every readiness check of the gateway records exactly one observation
\* of the upstream-call latency, whether its call succeeded, failed or timed
\* out.
C28_OneObservation ==
    (gwRes.req.route = "/health/ready" /\ gwRes.up # NoCall) => gwRes.obs = 1

\* ------------------------------------------------------ claims on shutdown
\* C19: after a signal each process eventually exits; it exits with code 0
\* once its server has closed (and, in the user service, quit() has resolved),
\* and otherwise with code 1 when the 10 s timer fires.
C19_ExitsInGrace ==
    /\ [](\A svc \in Services :
             proc[svc].state = "exited" =>
                \/ /\ proc[svc].code = 0
                   /\ proc[svc].server = "closed"
                   /\ svc = "user" => proc[svc].quitted
                \/ /\ proc[svc].code = 1
                   /\ proc[svc].by = "timer")
    /\ \A svc \in Services :
          (proc[svc].signals > 0) ~> (proc[svc].state = "exited")

\* C19, the part that holds: after a signal each process eventually exits,
\* with code 0 only once its server has closed (and quit() has resolved).
C19_EventuallyExits ==
    /\ [](\A svc \in Services :
             (proc[svc].state = "exited" /\ proc[svc].code = 0) =>
                /\ proc[svc].server = "closed"
                /\ svc = "user" => proc[svc].quitted)
    /\ \A svc \in Services :
          (proc[svc].signals > 0) ~> (proc[svc].state = "exited")

\* C20: the user service closes its store connection only after the
\* requests in flight have been answered: while it runs, the connection is
\* never closed with a request still in flight.
C20_DrainBeforeQuit ==
    (proc["user"].state = "running" /\ proc["user"].quitted) =>
        proc["user"].inflight = 0

\* C21: every request that a service accepted and that waits for a call
\* downstream (the gateway for the user service, the user service for the
\* store) is eventually answered: no request hangs.
C21_NoRequestHangs ==
    \A s \in Slots :
        /\ (gwReq[s].pc # "idle") ~> (gwReq[s].pc = "idle")
        /\ (usReq[s].pc # "idle") ~> (usReq[s].pc = "idle")

\* --------------------------------------------------------- claims on startup
\* C27: the strategy asked with n failed attempts answers the delay
\* min(n * 100, 3000) ms when n <= 10 and an error when n > 10; the delay
\* never decreases from one attempt to the next and never exceeds 3000 ms.
C27_ReconnectDelay ==
    /\ boot.last # NoResult =>
          /\ boot.attempt <= 10 =>
                boot.last = Delay(IF boot.attempt * 100 < 3000
                                  THEN boot.attempt * 100 ELSE 3000)
          /\ boot.attempt > 10 => boot.last = GiveUp
          /\ boot.last.ms <= 3000
    /\ \A n \in 0..(boot.attempt - 1) :
          /\ reconnectStrategy(n).kind = "delay"
          /\ reconnectStrategy(n).ms <= reconnectStrategy(n + 1).ms
                \/ reconnectStrategy(n + 1).kind = "error"

\* The strategy gave its largest delay, and later gave up.
C27_GaveUpAfterTen == boot.attempt = 11 /\ boot.last = GiveUp /\ boot.retries = 11

\* C26: the user service starts to listen only in a step that leaves the
\* store connection ready and, outside production, the sample data
\* initialised (the index has members); a start whose connection attempts
\* ended in the terminal error has exited with code 1 and never listened.
C26_ListensAfterConnect ==
    [][/\ (proc["user"].server # "listening" /\ proc'["user"].server = "listening") =>
            /\ boot'.conn = "ready" /\ redisReady' /\ redisClient' = "client"
            /\ boot.env # "production" => index' # {}
       /\ (boot'.last = GiveUp /\ ~boot'.lost) =>
            /\ proc'["user"].state = "exited" /\ proc'["user"].code = 1
            /\ proc'["user"].server = "none"
       /\ proc["user"].state = "exited" =>
            proc'["user"].server = proc["user"].server]_vars

\* Outside production the service listens over the two sample users.
C26_ListensOverSamples ==
    /\ boot.env = "development" /\ boot.phase = "listening"
    /\ proc["user"].server = "listening"
    /\ index = {1, 2} /\ usersTotal = 2 /\ ~boot.lost

\* C30: redisReady is false before the first connection, true once the socket
\* has connected or is ready, and false after an error or the end of the
\* connection; a readiness check whose ping resolves over the connection,
\* also one made after a loss and a reconnect, answers 200 "ready".
C30_FlagFollowsConnection ==
    /\ boot.conn \in {"none", "connecting", "closed"} => ~redisReady
    /\ boot.conn \in {"connected", "ready"} => redisReady
    /\ boot.phase = "created" => ~redisReady /\ redisClient = "null"
    /\ usRes.ping = "resolved" =>
          /\ usRes.status = 200 /\ usRes.body.status = "ready"
          /\ boot.conn = "ready" /\ redisReady
    /\ (usRes.req.route = "/health/ready" /\ usRes.status = 200) =>
          usRes.ping = "resolved"

\* Ready again after a loss of the connection.
C30_ReadyAgain ==
    /\ boot.lost /\ boot.conn = "ready" /\ boot.retries = 0 /\ boot.attempt > 0
    /\ usRes.req.route = "/health/ready" /\ usRes.status = 200

\* C22: a listening user service that lost its connection, and was not told
\* to shut down, has readiness
\* false while it has no socket, its client never stops reconnecting, and
\* its process keeps running.
C22_KeepsReconnecting ==
    (boot.phase = "listening" /\ boot.lost /\ ~QuitCalled) =>
        /\ boot.conn # "closed"
        /\ boot.conn = "connecting" => ~redisReady
        /\ proc["user"].state = "running"

====
